---- MODULE Spec2Model ----
(***************************************************************************)
(* demo-server: a static-content server that gates top-level directories   *)
(* ("modules") behind an optional passcode.  The model covers the request  *)
(* handlers of src/demo_server/server.py (serve, auth), the rate limiter,  *)
(* the signed session token and the process secret, and the daemon         *)
(* manager of src/demo_server/daemon.py with the commands of cli.py.        *)
(*                                                                         *)
(* Strings whose characters matter to the code (startswith, prefix         *)
(* matching, key concatenation) are sequences of one-character strings.    *)
(* A filesystem path is a sequence of names; the root is the empty         *)
(* sequence.                                                               *)
(***************************************************************************)
EXTENDS Integers, Sequences, FiniteSets, TLC

VARIABLES
    fs,          \* the filesystem: absolute path -> node
    secretFile,  \* content of ~/.demo-server/.secret, or None
    secret,      \* the secret the running process signs and verifies with
    attempts,    \* RateLimiter._attempts: key -> list of timestamps
    now,         \* time.time(), in seconds
    jar,         \* the client's cookie jar: module -> token or None
    calls,       \* log of the is_limited calls made: <<client, module, time, result>>
    resp,        \* the response in flight to the client, or None
    pidFile,     \* content of ~/.demo-server/daemon.pid: <<pid>>, or <<>> if no file
    live,        \* the living processes of the user
    serving,     \* those of them that run the server (uvicorn.run)
    foreign,     \* the living processes of other users
    spawned,     \* the process ids handed out so far
    job,         \* the start or restart command under way, or the last one
    out,         \* what the last stop or status command did since the last start
    loop         \* the event loop: the passcode submissions in flight

\* the state of the daemon manager (daemon.py, cli.py)
daemonVars == <<pidFile, live, serving, foreign, spawned, job, out>>

vars == <<fs, secretFile, secret, attempts, now, jar, calls, resp, daemonVars, loop>>

\* Python's None, where the other values are strings
None == "None"

----------------------------------------------------------------------------
(* Program constants *)

AUTH_COOKIE_MAX_AGE == 86400
max_attempts == 5
window == 60

----------------------------------------------------------------------------
(* Bounds of the model *)

\* longest request path, in segments
MaxPathLen == 3
\* the clock reads multiples of half a window, up to this many
MaxHalfWindows == 2
\* ... on each of this many days after the start
MaxDays == 1
\* secrets ever generated or written
MaxSecrets == 2
\* is_limited calls logged by the limiter specification
MaxCalls == 6
\* start and restart commands issued after the first start
MaxStarts == 2
\* passcode submissions handled by the event loop
MaxRequests == 6

----------------------------------------------------------------------------
(* Strings *)

\* The characters of each string the model uses.
Chars(s) ==
    CASE s = "srv" -> <<"s", "r", "v">>
      [] s = "etc" -> <<"e", "t", "c">>
      [] s = "passwd" -> <<"p", "a", "s", "s", "w", "d">>
      [] s = "demo" -> <<"d", "e", "m", "o">>
      [] s = "demo-evil" -> <<"d", "e", "m", "o", "-", "e", "v", "i", "l">>
      [] s = "docs" -> <<"d", "o", "c", "s">>
      [] s = "2:docs" -> <<"2", ":", "d", "o", "c", "s">>
      [] s = "open" -> <<"o", "p", "e", "n">>
      [] s = "alias" -> <<"a", "l", "i", "a", "s">>
      [] s = "nomod" -> <<"n", "o", "m", "o", "d">>
      [] s = ".hid" -> <<".", "h", "i", "d">>
      [] s = ".." -> <<".", ".">>
      [] s = "." -> <<".">>
      [] s = "index.html" -> <<"i", "n", "d", "e", "x", ".", "h", "t", "m", "l">>
      [] s = "a.txt" -> <<"a", ".", "t", "x", "t">>
      [] s = "ln" -> <<"l", "n">>
      [] s = ".encrypt" -> <<".", "e", "n", "c", "r", "y", "p", "t">>
      [] s = "10.0.0.1" -> <<"1", "0", ".", "0", ".", "0", ".", "1">>
      [] s = "fe80::1" -> <<"f", "e", "8", "0", ":", ":", "1">>
      [] s = "fe80::1:2" -> <<"f", "e", "8", "0", ":", ":", "1", ":", "2">>
      [] s = "unknown" -> <<"u", "n", "k", "n", "o", "w", "n">>

\* str.startswith on character sequences
StartsWith(s, prefix) ==
    /\ Len(s) >= Len(prefix)
    /\ SubSeq(s, 1, Len(prefix)) = prefix

\* name.startswith(".")
StartsWithDot(name) == StartsWith(Chars(name), <<".">>)

RECURSIVE JoinSep(_)
\* "/" + name for every name of the path
JoinSep(p) ==
    IF p = <<>> THEN <<>>
    ELSE <<"/">> \o Chars(Head(p)) \o JoinSep(Tail(p))

\* str(path) of an absolute path
Str(p) == IF p = <<>> THEN <<"/">> ELSE JoinSep(p)

Front(s) == SubSeq(s, 1, Len(s) - 1)

----------------------------------------------------------------------------
(* The filesystem *)

Dir == [kind |-> "dir"]
File(text) == [kind |-> "file", text |-> text]
Link(target) == [kind |-> "link", target |-> target]

\* base = Path(base_path).resolve()
base == <<"srv">>

IsLink(f, p) == p \in DOMAIN f /\ f[p].kind = "link"

RECURSIVE Walk(_, _, _)
\* realpath: done is the canonical prefix, rest the components still to walk.
\* A missing component is kept as it is (resolve is not strict).
Walk(f, done, rest) ==
    IF rest = <<>> THEN done
    ELSE LET c == Head(rest)
             t == Tail(rest)
         IN  IF c = "." THEN Walk(f, done, t)
             ELSE IF c = ".."
                 THEN Walk(f, IF done = <<>> THEN <<>> ELSE Front(done), t)
             ELSE IF IsLink(f, Append(done, c))
                 THEN Walk(f, <<>>, f[Append(done, c)].target \o t)
             ELSE Walk(f, Append(done, c), t)

\* Path.resolve()
Resolve(f, p) == Walk(f, <<>>, p)

\* Path.is_dir(), Path.is_file(), Path.exists(): all follow symbolic links
IsDir(f, p) == Resolve(f, p) \in DOMAIN f /\ f[Resolve(f, p)].kind = "dir"
IsFile(f, p) == Resolve(f, p) \in DOMAIN f /\ f[Resolve(f, p)].kind = "file"
Exists(f, p) == Resolve(f, p) \in DOMAIN f

\* Path.read_text()
ReadText(f, p) == f[Resolve(f, p)].text

\* PurePath drops "." components when it parses a string
Pure(segs) == SelectSeq(segs, LAMBDA c : c # ".")

----------------------------------------------------------------------------
(* PasscodeCodec *)

\* hashlib.pbkdf2_hmac("sha256", passcode, salt, 100_000).hex(): an ideal hash,
\* different for different (passcode, salt)
Pbkdf2(passcode, salt) == <<"pbkdf2", passcode, salt>>

\* The text of a credential record: salt_hex ":" hash_hex, or a text without ":"
Salted(salt_hex, hash_hex) == [colon |-> TRUE, salt |-> salt_hex, hash |-> hash_hex]
Plain(text) == [colon |-> FALSE, text |-> text]

\* salts os.urandom(16).hex() can give
HexSalts == {"5a17"}
\* a text before the colon on which bytes.fromhex raises ValueError
NotHex == "zz"

\* strings of ASCII characters only (secrets.compare_digest raises TypeError on others)
AsciiPasscodes == {"p1", "p2"}

hash_passcode(passcode, salt) == Salted(salt, Pbkdf2(passcode, salt))

\* "True", "False", or the exception raised
verify_passcode(passcode, stored) ==
    IF ~stored.colon
    THEN IF passcode \notin AsciiPasscodes \/ stored.text \notin AsciiPasscodes
         THEN "TypeError"
         ELSE IF passcode = stored.text THEN "True" ELSE "False"
    ELSE IF stored.salt \notin HexSalts THEN "ValueError"
    ELSE IF Pbkdf2(passcode, stored.salt) = stored.hash THEN "True" ELSE "False"

----------------------------------------------------------------------------
(* TokenService: itsdangerous.URLSafeTimedSerializer *)

NoCookie == [kind |-> "absent"]
Malformed == [kind |-> "malformed"]

\* serializer.dumps(module): payload, timestamp and a signature only the holder
\* of the secret can compute
dumps(payload, sec, t) == [kind |-> "token", payload |-> payload, ts |-> t, sig |-> sec]

\* a token signed with a key that is not the server's
Forged(payload, t) == [kind |-> "token", payload |-> payload, ts |-> t, sig |-> 0]

\* the age check as it would be with age >= max_age rejected
NotExpired_Strict(t, ts, max_age) == t - ts < max_age

\* the signed token is no older than max_age
NotExpired(t, ts, max_age) == t - ts <= max_age

\* loads as it would be if the signature were not verified
loads_Unsigned(cookie, sec, t, max_age) ==
    IF cookie.kind = "token" /\ NotExpired(t, cookie.ts, max_age)
    THEN cookie.payload
    ELSE None

\* serializer.loads(cookie, max_age) if cookie else None, with except Exception: None
loads(cookie, sec, t, max_age) ==
    IF cookie.kind = "token" /\ cookie.sig = sec /\ NotExpired(t, cookie.ts, max_age)
    THEN cookie.payload
    ELSE None

----------------------------------------------------------------------------
(* RateLimiter *)

\* f"{client_ip}:{module}"
Key(client, module) == Chars(client) \o <<":">> \o Chars(module)

\* self._attempts[key] of the defaultdict(list)
History(att, key) == IF key \in DOMAIN att THEN att[key] ELSE <<>>

\* [t for t in self._attempts[key] if now - t < self.window]
Pruned(att, key, t) == SelectSeq(History(att, key), LAMBDA x : t - x < window)

\* is_limited as it would be with > for >=
is_limited_OffByOne(att, key, t) == Len(Pruned(att, key, t)) > max_attempts

\* what is_limited(key) returns
is_limited(att, key, t) == Len(Pruned(att, key, t)) >= max_attempts

\* the list as it would be if a refused attempt were recorded too
Recorded_RefusedToo(att, key, t) == Append(Pruned(att, key, t), t)

\* self._attempts[key] after is_limited(key)
Recorded(att, key, t) ==
    IF is_limited(att, key, t)
    THEN Pruned(att, key, t)
    ELSE Append(Pruned(att, key, t), t)

\* the table as it would be if a call pruned the lists of all keys
AttemptsAfter_PruneAll(att, key, t) ==
    [k \in DOMAIN att \cup {key} |->
        IF k = key THEN Recorded(att, key, t) ELSE Pruned(att, k, t)]

\* self._attempts after is_limited(key)
AttemptsAfter(att, key, t) ==
    [k \in DOMAIN att \cup {key} |-> IF k = key THEN Recorded(att, key, t) ELSE att[k]]

----------------------------------------------------------------------------
(* Requests and responses *)

\* The {path:path} of a request: the string is "/" (if abs) + the segments
\* joined by "/" + "/" (if slash).
ReqPath(abs, segs, slash) == [abs |-> abs, segs |-> segs, slash |-> slash]

\* not path
IsEmptyPath(path) == ~path.abs /\ path.segs = <<>>

\* path.endswith("/")
EndsWithSlash(path) == path.slash \/ (path.abs /\ path.segs = <<>>)

\* path = path + "index.html"
WithIndex(path) ==
    IF IsEmptyPath(path) \/ EndsWithSlash(path)
    THEN ReqPath(path.abs, Append(path.segs, "index.html"), FALSE)
    ELSE path

\* Path(path).parts without the root: PurePath drops "." components
Parts(path) == Pure(path.segs)

\* the hidden-file check as it would be if it looked at the file name only
HiddenPart_LastOnly(path) ==
    Parts(path) # <<>> /\ StartsWithDot(Parts(path)[Len(Parts(path))])

\* for part in Path(path).parts: if part.startswith(".")
HiddenPart(path) == \E i \in 1..Len(Parts(path)) : StartsWithDot(Parts(path)[i])

\* module_dir = base / module
ModuleDir(module) == Pure(base \o <<module>>)

\* module_dir / path: an absolute path replaces the left side
Joined(module, path) ==
    IF path.abs THEN Parts(path) ELSE ModuleDir(module) \o Parts(path)

\* the traversal check as it was before os.sep was appended
UnderModuleDir_NoSep(file_path, module) ==
    StartsWith(Str(file_path), Str(ModuleDir(module)))

\* the traversal check as it would be if made against the served directory
UnderModuleDir_Base(file_path, module) ==
    StartsWith(Str(file_path), Str(base) \o <<"/">>)

\* str(file_path).startswith(str(module_dir) + os.sep)
UnderModuleDir(file_path, module) ==
    StartsWith(Str(file_path), Str(ModuleDir(module)) \o <<"/">>)

NoResp == [op |-> "none"]

\* the credential check as it would be with "if value is None"
Challenged_NoneOnly(value, module) == value = None

\* if value != module: the passcode form, 401
Challenged(value, module) == value # module

\* serve as it would be with the is_file test made before the credential check
serve_FileCheckFirst(f, sec, t, module, path, cookie) ==
    LET req == [op |-> "serve", module |-> module, path |-> path, cookie |-> cookie,
                setCookie |-> NoCookie]
        reply(status, checked, file) ==
            req @@ [status |-> status, checked |-> checked, file |-> file]
        p == WithIndex(path)
        encrypt_file == ModuleDir(module) \o <<".encrypt">>
        value == loads(cookie, sec, t, AUTH_COOKIE_MAX_AGE)
        file_path == Resolve(f, Joined(module, p))
    IN  IF ~IsDir(f, ModuleDir(module)) THEN reply(404, FALSE, <<>>)
        ELSE IF HiddenPart(p) THEN reply(403, FALSE, <<>>)
        ELSE IF StartsWithDot(module) THEN reply(403, FALSE, <<>>)
        ELSE IF ~IsFile(f, file_path) THEN reply(404, FALSE, <<>>)
        ELSE IF Exists(f, encrypt_file) /\ Challenged(value, module)
            THEN reply(401, TRUE, <<>>)
        ELSE IF ~UnderModuleDir(file_path, module)
            THEN reply(403, Exists(f, encrypt_file), <<>>)
        ELSE reply(200, Exists(f, encrypt_file), file_path)

\* serve(module, request, path): the response; checked tells whether the
\* handler got to validate the cookie, file is the file_path it serves
serve(f, sec, t, module, path, cookie) ==
    LET req == [op |-> "serve", module |-> module, path |-> path, cookie |-> cookie,
                setCookie |-> NoCookie]
        reply(status, checked, file) ==
            req @@ [status |-> status, checked |-> checked, file |-> file]
        p == WithIndex(path)
        encrypt_file == ModuleDir(module) \o <<".encrypt">>
        value == loads(cookie, sec, t, AUTH_COOKIE_MAX_AGE)
        file_path == Resolve(f, Joined(module, p))
    IN  IF ~IsDir(f, ModuleDir(module)) THEN reply(404, FALSE, <<>>)
        ELSE IF HiddenPart(p) THEN reply(403, FALSE, <<>>)
        ELSE IF StartsWithDot(module) THEN reply(403, FALSE, <<>>)
        ELSE IF ~Exists(f, encrypt_file)
            THEN IF ~UnderModuleDir(file_path, module) THEN reply(403, FALSE, <<>>)
                 ELSE IF ~IsFile(f, file_path) THEN reply(404, FALSE, <<>>)
                 ELSE reply(200, FALSE, file_path)
        ELSE IF Challenged(value, module) THEN reply(401, TRUE, <<>>)
        ELSE IF ~UnderModuleDir(file_path, module) THEN reply(403, TRUE, <<>>)
        ELSE IF ~IsFile(f, file_path) THEN reply(404, TRUE, <<>>)
        ELSE reply(200, TRUE, file_path)

Range(sq) == {sq[i] : i \in 1..Len(sq)}

\* the cookie set on the 403 page as well
IssuesCookie_OnFailureToo(status) == status \in {303, 403}

\* the status on which auth sets the cookie: the redirect it ends with
IssuesCookie(status) == status = 303

\* auth as it would be if the limiter were asked only once the passcode has
\* been found wrong
auth_LimitFailuresOnly(f, att, sec, t, client, module, passcode) ==
    LET req == [op |-> "auth", client |-> client, module |-> module,
                passcode |-> passcode]
        limited == is_limited(att, Key(client, module), t)
        reply(status, trace) ==
            req @@ [status |-> status, trace |-> trace,
                    setCookie |-> IF IssuesCookie(status)
                                  THEN dumps(module, sec, t) ELSE NoCookie,
                    limited |-> "is_limited" \in Range(trace) /\ limited]
        encrypt_file == ModuleDir(module) \o <<".encrypt">>
        verified == verify_passcode(passcode, ReadText(f, encrypt_file))
    IN  IF ~IsDir(f, ModuleDir(module)) \/ ~Exists(f, encrypt_file)
        THEN reply(404, <<>>)
        ELSE IF verified \notin {"True", "False"}
        THEN reply(500, <<"is_limited", "read_text", "verify_passcode">>)
        ELSE IF verified = "False"
        THEN IF limited
             THEN reply(429, <<"is_limited", "read_text", "verify_passcode">>)
             ELSE reply(403, <<"is_limited", "read_text", "verify_passcode">>)
        ELSE reply(303, <<"is_limited", "read_text", "verify_passcode", "dumps">>)

\* auth(module, request, passcode): the response; trace lists the calls the
\* handler made, limited is what limiter.is_limited returned to it
auth(f, att, sec, t, client, module, passcode) ==
    LET req == [op |-> "auth", client |-> client, module |-> module,
                passcode |-> passcode]
        limited == is_limited(att, Key(client, module), t)
        reply(status, trace) ==
            req @@ [status |-> status, trace |-> trace,
                    setCookie |-> IF IssuesCookie(status)
                                  THEN dumps(module, sec, t) ELSE NoCookie,
                    limited |-> "is_limited" \in Range(trace) /\ limited]
        encrypt_file == ModuleDir(module) \o <<".encrypt">>
        verified == verify_passcode(passcode, ReadText(f, encrypt_file))
    IN  IF ~IsDir(f, ModuleDir(module)) \/ ~Exists(f, encrypt_file)
        THEN reply(404, <<>>)
        ELSE IF limited
        THEN reply(429, <<"is_limited">>)
        ELSE IF verified \notin {"True", "False"}
        THEN reply(500, <<"is_limited", "read_text", "verify_passcode">>)
        ELSE IF verified = "False"
        THEN reply(403, <<"is_limited", "read_text", "verify_passcode">>)
        ELSE reply(303, <<"is_limited", "read_text", "verify_passcode", "dumps">>)

\* whether auth(module, ...) gets as far as limiter.is_limited
ReachesLimiter(f, module) ==
    IsDir(f, ModuleDir(module)) /\ Exists(f, ModuleDir(module) \o <<".encrypt">>)

----------------------------------------------------------------------------
(* Actions *)

\* GET /{module}/{path}
Serve(module, path, cookie) ==
    /\ resp = NoResp
    /\ resp' = serve(fs, secret, now, module, path, cookie)
    /\ UNCHANGED <<fs, secretFile, secret, attempts, now, jar, calls, daemonVars, loop>>

\* POST /{module}/__auth__ without the log of calls
AuthStep(client, module, passcode) ==
    /\ resp = NoResp
    /\ resp' = auth(fs, attempts, secret, now, client, module, passcode)
    /\ attempts' = IF ReachesLimiter(fs, module)
                   THEN AttemptsAfter(attempts, Key(client, module), now)
                   ELSE attempts
    /\ UNCHANGED <<fs, secretFile, secret, now, jar, daemonVars, loop>>

\* POST /{module}/__auth__
Auth(client, module, passcode) ==
    /\ AuthStep(client, module, passcode)
    /\ UNCHANGED calls

\* POST /{module}/__auth__, the call of is_limited logged
AuthLogged(client, module, passcode) ==
    /\ Len(calls) < MaxCalls
    /\ ReachesLimiter(fs, module)
    /\ AuthStep(client, module, passcode)
    /\ calls' = Append(calls, <<client, module, now,
                                is_limited(attempts, Key(client, module), now)>>)

\* The client takes the response and keeps the cookie it sets
Deliver ==
    /\ resp # NoResp
    /\ jar' = IF resp.setCookie # NoCookie
              THEN [jar EXCEPT ![resp.module] = resp.setCookie]
              ELSE jar
    /\ resp' = NoResp
    /\ UNCHANGED <<fs, secretFile, secret, attempts, now, calls, daemonVars, loop>>

\* The clock moves on to a later instant of the set
Tick(instants) ==
    /\ resp = NoResp
    /\ \E t \in instants : t > now /\ now' = t
    /\ UNCHANGED <<fs, secretFile, secret, attempts, jar, calls, resp, daemonVars, loop>>

\* The filesystem with node written at path p
WithNode(f, p, node) == [q \in DOMAIN f \cup {p} |-> IF q = p THEN node ELSE f[q]]

\* The filesystem without path p
WithoutNode(f, p) == [q \in DOMAIN f \ {p} |-> f[q]]

\* cli set-passcode: encrypt_file.write_text(hash_passcode(passcode)), the salt
\* drawn by os.urandom
SetPasscode(module, passcode) ==
    /\ resp = NoResp
    /\ IsDir(fs, Resolve(fs, ModuleDir(module)))
    /\ \E salt \in HexSalts :
           fs' = WithNode(fs, Resolve(fs, ModuleDir(module)) \o <<".encrypt">>,
                          File(hash_passcode(passcode, salt)))
    /\ UNCHANGED <<secretFile, secret, attempts, now, jar, calls, resp, daemonVars, loop>>

\* An administrator writes a credential record by hand
WriteRecord(module, text) ==
    /\ resp = NoResp
    /\ IsDir(fs, ModuleDir(module))
    /\ fs' = WithNode(fs, ModuleDir(module) \o <<".encrypt">>, File(text))
    /\ UNCHANGED <<secretFile, secret, attempts, now, jar, calls, resp, daemonVars, loop>>

\* An administrator removes a credential record
RemoveRecord(module) ==
    /\ resp = NoResp
    /\ ModuleDir(module) \o <<".encrypt">> \in DOMAIN fs
    /\ fs' = WithoutNode(fs, ModuleDir(module) \o <<".encrypt">>)
    /\ UNCHANGED <<secretFile, secret, attempts, now, jar, calls, resp, daemonVars, loop>>

\* An administrator places (or re-points) a symbolic link
MakeLink(at, target) ==
    /\ resp = NoResp
    /\ IF at \in DOMAIN fs THEN fs[at].kind = "link" ELSE TRUE
    /\ fs' = WithNode(fs, at, Link(target))
    /\ UNCHANGED <<secretFile, secret, attempts, now, jar, calls, resp, daemonVars, loop>>

\* An administrator removes a symbolic link
Unlink(at) ==
    /\ resp = NoResp
    /\ IsLink(fs, at)
    /\ fs' = WithoutNode(fs, at)
    /\ UNCHANGED <<secretFile, secret, attempts, now, jar, calls, resp, daemonVars, loop>>

\* The secrets no part of the state holds: what secrets.token_hex(32), or an
\* administrator choosing a new secret, can give
FreshSecrets ==
    (1..MaxSecrets) \ ({secret} \cup {secretFile[i] : i \in DOMAIN secretFile}
                       \cup {jar[m].sig : m \in {x \in DOMAIN jar : jar[x].kind = "token"}})

\* An administrator rotates ~/.demo-server/.secret
RotateSecret ==
    /\ resp = NoResp
    /\ \E s \in FreshSecrets : secretFile' = <<s>>
    /\ UNCHANGED <<fs, secret, attempts, now, jar, calls, resp, daemonVars, loop>>

\* An administrator deletes ~/.demo-server/.secret
DeleteSecret ==
    /\ resp = NoResp
    /\ secretFile # <<>>
    /\ secretFile' = <<>>
    /\ UNCHANGED <<fs, secret, attempts, now, jar, calls, resp, daemonVars, loop>>

\* secret = _get_secret(): read the file, or generate a secret and write it
GetSecret ==
    IF secretFile # <<>>
    THEN secret' = secretFile[1] /\ UNCHANGED secretFile
    ELSE \E s \in FreshSecrets : secret' = s /\ secretFile' = <<s>>

\* The server process is started again: create_app builds the serializer from
\* _get_secret() and a new RateLimiter
CreateApp ==
    /\ resp = NoResp
    /\ GetSecret
    /\ attempts' = [k \in {} |-> <<>>]
    /\ UNCHANGED <<fs, now, jar, calls, resp, daemonVars, loop>>

\* create_app as the start command calls it, in the daemon
create_app ==
    /\ GetSecret
    /\ attempts' = [k \in {} |-> <<>>]
    /\ UNCHANGED <<fs, now, jar, calls, resp, loop>>

----------------------------------------------------------------------------
(* The event loop.  uvicorn runs the handlers of the application as
   coroutines of one loop in one process: a handler that has begun runs until
   it awaits or returns.  auth is a coroutine without an await, and
   is_limited an ordinary function.  A submission in flight is at one of the
   steps queued, pruned (is_limited has stored the pruned list), recording
   (the list was found short of max_attempts), verify (the attempt is
   recorded and is_limited has returned False) and done. *)

\* the event loop as it would be if auth were an ordinary function, run for
\* each request on a thread of the pool
Yields_OnThreads(pc) == TRUE

\* whether the loop may run another handler when this one is at pc: there is
\* no await in auth
Yields(pc) == FALSE

\* handler i may take a step: no other handler holds the loop
CanRun(i) == i \in 1..Len(loop.handlers) /\ loop.turn \in {0, i}

\* the loop after handler i has become h
LoopAfter(i, h) ==
    [turn |-> IF h.pc = "done" \/ Yields(h.pc) THEN 0 ELSE i,
     handlers |-> [loop.handlers EXCEPT ![i] = h]]

\* POST /{module}/__auth__ arrives
Arrive(client, module, passcode) ==
    /\ Len(loop.handlers) < MaxRequests
    /\ loop' = [loop EXCEPT !.handlers =
                   Append(@, [client |-> client, module |-> module,
                              passcode |-> passcode, pc |-> "queued", t |-> 0,
                              passed |-> FALSE, status |-> 0, seen |-> 0])]
    /\ UNCHANGED <<fs, secretFile, secret, attempts, now, jar, calls, resp, daemonVars>>

\* auth up to the call of is_limited, and is_limited up to the stored list:
\* now = time.time(); self._attempts[key] = [t for t in ... if now - t < window].
\* The loop begins the handlers in the order the requests arrived.
AuthBegin(i) ==
    /\ CanRun(i) /\ loop.handlers[i].pc = "queued"
    /\ \A j \in 1..(i - 1) : loop.handlers[j].pc # "queued"
    /\ LET h == loop.handlers[i]
           key == Key(h.client, h.module)
       IN  IF ~ReachesLimiter(fs, h.module)
           THEN /\ loop' = LoopAfter(i, [h EXCEPT !.pc = "done", !.status = 404])
                /\ UNCHANGED attempts
           ELSE /\ loop' = LoopAfter(i, [h EXCEPT !.pc = "pruned", !.t = now,
                                                  !.seen = Len(loop.handlers)])
                /\ attempts' = [k \in DOMAIN attempts \cup {key} |->
                                   IF k = key THEN Pruned(attempts, key, now)
                                   ELSE attempts[k]]
    /\ UNCHANGED <<fs, secretFile, secret, now, jar, calls, resp, daemonVars>>

\* is_limited: if len(self._attempts[key]) >= self.max_attempts: return True,
\* and auth answers 429
LimitCheck(i) ==
    /\ CanRun(i) /\ loop.handlers[i].pc = "pruned"
    /\ LET h == loop.handlers[i]
       IN  loop' = LoopAfter(i,
               IF Len(History(attempts, Key(h.client, h.module))) >= max_attempts
               THEN [h EXCEPT !.pc = "done", !.status = 429]
               ELSE [h EXCEPT !.pc = "recording"])
    /\ UNCHANGED <<fs, secretFile, secret, attempts, now, jar, calls, resp, daemonVars>>

\* is_limited: self._attempts[key].append(now); return False
LimitRecord(i) ==
    /\ CanRun(i) /\ loop.handlers[i].pc = "recording"
    /\ LET h == loop.handlers[i]
           key == Key(h.client, h.module)
       IN  /\ attempts' = [k \in DOMAIN attempts \cup {key} |->
                              IF k = key THEN Append(History(attempts, key), h.t)
                              ELSE attempts[k]]
           /\ loop' = LoopAfter(i, [h EXCEPT !.pc = "verify", !.passed = TRUE])
    /\ UNCHANGED <<fs, secretFile, secret, now, jar, calls, resp, daemonVars>>

\* auth after the limiter: read the record, verify the passcode, answer
AuthEnd(i) ==
    /\ CanRun(i) /\ loop.handlers[i].pc = "verify"
    /\ LET h == loop.handlers[i]
           verified == verify_passcode(h.passcode,
                           ReadText(fs, ModuleDir(h.module) \o <<".encrypt">>))
       IN  loop' = LoopAfter(i, [h EXCEPT !.pc = "done",
                       !.status = IF verified = "True" THEN 303
                                  ELSE IF verified = "False" THEN 403
                                  ELSE 500])
    /\ UNCHANGED <<fs, secretFile, secret, attempts, now, jar, calls, resp, daemonVars>>

----------------------------------------------------------------------------
(* The daemon manager: daemon.py and the commands of cli.py.  A process id is
   a positive number; an optional pid is <<pid>> or <<>>.  The commands are
   issued one at a time; the processes they leave behind run on. *)

serverVars == <<fs, secretFile, secret, attempts, now, jar, calls, resp, loop>>

\* os.kill(pid, sig), for signal 0 and SIGTERM alike: what it raises, or "ok"
Kill(pid, lv, fg) ==
    IF pid \in fg THEN "PermissionError"
    ELSE IF pid \in lv THEN "ok"
    ELSE "ProcessLookupError"

\* daemon_status as it would be if permission denied counted as not running
daemon_status_DeniedIsDead(file, lv, fg) ==
    IF file = <<>> THEN [pid |-> <<>>, running |-> FALSE]
    ELSE [pid |-> file, running |-> Kill(file[1], lv, fg) = "ok"]

\* daemon_status(): (pid, running)
daemon_status(file, lv, fg) ==
    IF file = <<>> THEN [pid |-> <<>>, running |-> FALSE]
    ELSE CASE Kill(file[1], lv, fg) = "ok" -> [pid |-> file, running |-> TRUE]
           [] Kill(file[1], lv, fg) = "ProcessLookupError" ->
                  [pid |-> file, running |-> FALSE]
           [] Kill(file[1], lv, fg) = "PermissionError" ->
                  [pid |-> file, running |-> TRUE]

\* cli status: what it found, what it printed and the PID file it leaves
status(file, lv, fg) ==
    LET st == daemon_status(file, lv, fg)
    IN  [cmd |-> "status", before |-> file,
         probe |-> IF file = <<>> THEN "none" ELSE Kill(file[1], lv, fg),
         pid |-> st.pid, running |-> st.running,
         signalled |-> <<>>, error |-> "none",
         message |-> IF st.pid = <<>> THEN "Not running (no PID file)"
                     ELSE IF st.running THEN "Running"
                     ELSE "Not running (stale PID file)",
         after |-> IF st.pid = <<>> THEN file
                   ELSE IF st.running THEN file
                   ELSE <<>>]

\* stop_daemon as it would be with the unlink after the try instead of in its
\* finally clause
stop_daemon_UnlinkAfterTry(file, lv, fg) ==
    LET r == IF file = <<>> THEN "none" ELSE Kill(file[1], lv, fg)
    IN  [cmd |-> "stop", before |-> file, probe |-> r,
         pid |-> file, running |-> FALSE,
         signalled |-> IF r = "ok" THEN file ELSE <<>>,
         error |-> IF r = "PermissionError" THEN r ELSE "none",
         message |-> IF file = <<>> THEN "No PID file found"
                     ELSE IF r = "ok" THEN "Sent SIGTERM"
                     ELSE IF r = "ProcessLookupError" THEN "stale PID file"
                     ELSE "none",
         after |-> IF r = "PermissionError" THEN file ELSE <<>>]

\* stop_daemon(): the process signalled, the message printed, the exception
\* that leaves the function and the PID file afterwards
stop_daemon(file, lv, fg) ==
    LET r == IF file = <<>> THEN "none" ELSE Kill(file[1], lv, fg)
    IN  [cmd |-> "stop", before |-> file, probe |-> r,
         pid |-> file, running |-> FALSE,
         signalled |-> IF r = "ok" THEN file ELSE <<>>,
         error |-> IF r = "PermissionError" THEN r ELSE "none",
         message |-> IF file = <<>> THEN "No PID file found"
                     ELSE IF r = "ok" THEN "Sent SIGTERM"
                     ELSE IF r = "ProcessLookupError" THEN "stale PID file"
                     ELSE "none",
         after |-> <<>>]

NoOut == [cmd |-> "none"]

\* no start or restart command is under way
Idle == job.pc \in {"done", "failed"}

\* cli status
CliStatus ==
    /\ Idle
    /\ out' = status(pidFile, live, foreign)
    /\ pidFile' = status(pidFile, live, foreign).after
    /\ UNCHANGED <<serverVars, live, serving, foreign, spawned, job>>

\* cli stop
CliStop ==
    /\ Idle
    /\ out' = stop_daemon(pidFile, live, foreign)
    /\ pidFile' = stop_daemon(pidFile, live, foreign).after
    /\ UNCHANGED <<serverVars, live, serving, foreign, spawned, job>>

\* A server process ends: on a signal sent to it, or on its own, and without
\* touching the PID file
ProcExit ==
    /\ \E p \in serving : live' = live \ {p} /\ serving' = serving \ {p}
    /\ UNCHANGED <<serverVars, pidFile, foreign, spawned, job, out>>

\* The system gives the id of a process that has ended to a process of
\* another user: the id the PID file still names
ForeignSpawn ==
    /\ pidFile # <<>>
    /\ pidFile[1] \notin live \cup foreign
    /\ foreign' = foreign \cup {pidFile[1]}
    /\ UNCHANGED <<serverVars, pidFile, live, serving, spawned, job, out>>

\* A process of another user ends
ForeignExit ==
    /\ \E p \in foreign : foreign' = foreign \ {p}
    /\ UNCHANGED <<serverVars, pidFile, live, serving, spawned, job, out>>

\* the result of daemon_status before it has been called
NoStatus == [pid |-> <<>>, running |-> FALSE]

\* A start or restart command: cmd the command, pc the step it is at, self the
\* process that runs it at this moment, orig the process the shell started,
\* mid the child of the first fork, pid the child of the second, st what
\* daemon_status returned to restart, stop what stop_daemon did for it, starts
\* the number of times it entered start, fileAtStart the PID file it found
\* then, redirected whether stdout and stderr go to the log file, trace the
\* steps it took
NewJob(cmd, pc, proc) ==
    [cmd |-> cmd, pc |-> pc, self |-> proc, orig |-> proc, mid |-> 0, pid |-> 0,
     st |-> NoStatus, stop |-> NoOut, starts |-> 0, fileAtStart |-> <<>>,
     redirected |-> FALSE, trace |-> <<>>]

\* the body of start up to daemonize(): ensure_dirs and the banner
EnterStart(j, file) ==
    [j EXCEPT !.pc = "fork1", !.starts = @ + 1, !.fileAtStart = file,
              !.trace = Append(@, "start")]

\* the shell can start another command: process ids are left for it
CanSpawn == spawned + 3 <= 3 * (MaxStarts + 1)

\* cli start
CliStart ==
    /\ Idle /\ CanSpawn
    /\ job' = EnterStart(NewJob("start", "start", spawned + 1), pidFile)
    /\ live' = live \cup {spawned + 1}
    /\ spawned' = spawned + 1
    /\ out' = NoOut
    /\ UNCHANGED <<serverVars, pidFile, serving, foreign>>

\* daemonize, first fork: pid = os.fork(); if pid > 0: sys.exit(0)
Fork1 ==
    /\ job.pc = "fork1"
    /\ job' = [job EXCEPT !.pc = "fork2", !.mid = spawned + 1, !.self = spawned + 1,
                          !.trace = @ \o <<"fork", "exit">>]
    /\ live' = (live \ {job.self}) \cup {spawned + 1}
    /\ spawned' = spawned + 1
    /\ UNCHANGED <<serverVars, pidFile, serving, foreign, out>>

\* the second fork as it would be with the test inverted: the child exits and
\* the parent goes on
Fork2_ParentGoesOn ==
    /\ job.pc = "fork2"
    /\ job' = [job EXCEPT !.pc = "redirect", !.pid = spawned + 1,
                          !.trace = @ \o <<"setsid", "fork", "exit">>]
    /\ spawned' = spawned + 1
    /\ UNCHANGED <<serverVars, pidFile, live, serving, foreign, out>>

\* daemonize, os.setsid() and the second fork
Fork2 ==
    /\ job.pc = "fork2"
    /\ job' = [job EXCEPT !.pc = "redirect", !.pid = spawned + 1, !.self = spawned + 1,
                          !.trace = @ \o <<"setsid", "fork", "exit">>]
    /\ live' = (live \ {job.self}) \cup {spawned + 1}
    /\ spawned' = spawned + 1
    /\ UNCHANGED <<serverVars, pidFile, serving, foreign, out>>

\* daemonize: flush, open the log file for appending, dup2 onto stdout and stderr
Redirect ==
    /\ job.pc = "redirect"
    /\ job' = [job EXCEPT !.pc = "write", !.redirected = TRUE,
                          !.trace = @ \o <<"flush", "open_log", "dup2">>]
    /\ UNCHANGED <<serverVars, pidFile, live, serving, foreign, spawned, out>>

\* daemonize: pid_file.write_text(str(os.getpid()))
WritePid ==
    /\ job.pc = "write"
    /\ pidFile' = <<job.self>>
    /\ job' = [job EXCEPT !.pc = "run", !.trace = Append(@, "write_pid")]
    /\ UNCHANGED <<serverVars, live, serving, foreign, spawned, out>>

\* start after daemonize: create_app and uvicorn.run, which serves until the
\* process ends
Run ==
    /\ job.pc = "run"
    /\ create_app
    /\ serving' = serving \cup {job.self}
    /\ job' = [job EXCEPT !.pc = "done", !.trace = @ \o <<"create_app", "run">>]
    /\ UNCHANGED <<pidFile, live, foreign, spawned, out>>

\* ... or cannot bind the port another server still listens on, and exits
RunFails ==
    /\ job.pc = "run"
    /\ serving # {}
    /\ IF secretFile # <<>> THEN UNCHANGED secretFile
       ELSE \E s \in FreshSecrets : secretFile' = <<s>>
    /\ live' = live \ {job.self}
    /\ job' = [job EXCEPT !.pc = "done", !.trace = @ \o <<"create_app", "exit">>]
    /\ UNCHANGED <<fs, secret, attempts, now, jar, calls, resp, loop,
                   pidFile, serving, foreign, spawned, out>>

\* cli restart
CliRestart ==
    /\ Idle /\ CanSpawn
    /\ job' = NewJob("restart", "status", spawned + 1)
    /\ live' = live \cup {spawned + 1}
    /\ spawned' = spawned + 1
    /\ out' = NoOut
    /\ UNCHANGED <<serverVars, pidFile, serving, foreign>>

\* restart: pid, running = daemon_status()
RestartStatus ==
    /\ job.pc = "status"
    /\ LET st == daemon_status(pidFile, live, foreign)
       IN  job' = [job EXCEPT !.st = st,
                              !.pc = IF st.running THEN "stop"
                                     ELSE IF st.pid # <<>> THEN "unlink"
                                     ELSE "start",
                              !.trace = Append(@, "daemon_status")]
    /\ UNCHANGED <<serverVars, pidFile, live, serving, foreign, spawned, out>>

\* restart, if running: stop_daemon(); an exception that leaves it ends the
\* command
RestartStop ==
    /\ job.pc = "stop"
    /\ LET r == stop_daemon(pidFile, live, foreign)
       IN  /\ pidFile' = r.after
           /\ job' = [job EXCEPT !.stop = r,
                                 !.pc = IF r.error = "none" THEN "sleep" ELSE "failed",
                                 !.trace = Append(@, "stop_daemon")]
           /\ live' = IF r.error = "none" THEN live ELSE live \ {job.self}
    /\ UNCHANGED <<serverVars, serving, foreign, spawned, out>>

\* restart, if running: time.sleep(0.5)
RestartSleep ==
    /\ job.pc = "sleep"
    /\ job' = [job EXCEPT !.pc = "start", !.trace = Append(@, "sleep")]
    /\ UNCHANGED <<serverVars, pidFile, live, serving, foreign, spawned, out>>

\* restart, elif pid is not None: PID_FILE.unlink(missing_ok=True)
RestartUnlink ==
    /\ job.pc = "unlink"
    /\ pidFile' = <<>>
    /\ job' = [job EXCEPT !.pc = "start", !.trace = Append(@, "unlink")]
    /\ UNCHANGED <<serverVars, live, serving, foreign, spawned, out>>

\* restart: start.invoke(ctx)
RestartStart ==
    /\ job.pc = "start"
    /\ job' = EnterStart(job, pidFile)
    /\ UNCHANGED <<serverVars, pidFile, live, serving, foreign, spawned, out>>

----------------------------------------------------------------------------
(* The initial state: the server has just been started by create_app on the
   served directory /srv, and no secret file existed before *)

Data == File(Plain("data"))

\* /srv holds the open module demo, its sibling demo-evil, the hidden
\* directory .hid, the link alias -> demo-evil and the protected modules
\* docs and 2:docs (passcode p2); /etc/passwd lies outside.
InitFs ==
    (<<>> :> Dir)
    @@ (<<"etc">> :> Dir)
    @@ (<<"etc", "passwd">> :> Data)
    @@ (<<"srv">> :> Dir)
    @@ (<<"srv", "demo">> :> Dir)
    @@ (<<"srv", "demo", "index.html">> :> Data)
    @@ (<<"srv", "demo", "a.txt">> :> Data)
    @@ (<<"srv", "demo-evil">> :> Dir)
    @@ (<<"srv", "demo-evil", "index.html">> :> Data)
    @@ (<<"srv", "demo-evil", "a.txt">> :> Data)
    @@ (<<"srv", ".hid">> :> Dir)
    @@ (<<"srv", ".hid", "a.txt">> :> Data)
    @@ (<<"srv", "alias">> :> Link(<<"srv", "demo-evil">>))
    @@ (<<"srv", "docs">> :> Dir)
    @@ (<<"srv", "docs", "a.txt">> :> Data)
    @@ (<<"srv", "docs", ".encrypt">> :> File(hash_passcode("p2", "5a17")))
    @@ (<<"srv", "2:docs">> :> Dir)
    @@ (<<"srv", "2:docs", ".encrypt">> :> File(hash_passcode("p2", "5a17")))

\* the start command that brought the server up: process 1 forked 2, which
\* forked 3, the server
FirstStart ==
    [cmd |-> "start", pc |-> "done", self |-> 3, orig |-> 1, mid |-> 2, pid |-> 3,
     st |-> NoStatus, stop |-> NoOut, starts |-> 1, fileAtStart |-> <<>>,
     redirected |-> TRUE,
     trace |-> <<"start", "fork", "exit", "setsid", "fork", "exit",
                 "flush", "open_log", "dup2", "write_pid", "create_app", "run">>]

\* the modules the client keeps a cookie for
JarModules == {"demo", "docs"}

Init ==
    /\ fs = InitFs
    /\ secretFile = <<1>>
    /\ secret = 1
    /\ attempts = [k \in {} |-> <<>>]
    /\ now = 0
    /\ jar = [m \in JarModules |-> NoCookie]
    /\ calls = <<>>
    /\ resp = NoResp
    /\ pidFile = <<3>>
    /\ live = {3}
    /\ serving = {3}
    /\ foreign = {}
    /\ spawned = 3
    /\ job = FirstStart
    /\ out = NoOut
    /\ loop = [turn |-> 0, handlers |-> <<>>]

----------------------------------------------------------------------------
(* Inputs *)

SeqsUpTo(S, n) == UNION {[1..k -> S] : k \in 0..n}

\* the request paths of at most n segments drawn from segs
RequestPaths(segs, n) ==
    {ReqPath(abs, sg, slash) :
        abs \in BOOLEAN, sg \in SeqsUpTo(segs, n), slash \in BOOLEAN}
    \ {ReqPath(abs, <<>>, TRUE) : abs \in BOOLEAN}

Passcodes == {"p1", "p2"}

\* the cookie values a client can send as auth_{module}: none, garbage, a token
\* under a key of its own, or any cookie of its jar
Cookies(module) ==
    {NoCookie, Malformed, Forged(module, now)} \cup {jar[m] : m \in JarModules}

\* the client is shown the passcode form of the module (its cookie does not
\* pass) and submits a passcode that is the right one
AuthKnown(client, module) ==
    /\ resp = NoResp
    /\ ReachesLimiter(fs, module)
    /\ loads(jar[module], secret, now, AUTH_COOKIE_MAX_AGE) # module
    /\ \E p \in Passcodes :
        /\ verify_passcode(p, ReadText(fs, ModuleDir(module) \o <<".encrypt">>)) = "True"
        /\ Auth(client, module, p)

----------------------------------------------------------------------------
(* Spec: sessions.  One client, the modules demo and docs, the clock over two
   days, the secret rotated and the server restarted. *)

SessionInstants ==
    {d * AUTH_COOKIE_MAX_AGE + e * (window \div 2) : d \in 0..MaxDays, e \in 0..1}

SessionPaths ==
    {ReqPath(FALSE, sg, FALSE) : sg \in {<<"a.txt">>, <<".encrypt">>, <<".", "a.txt">>}}

ServeSession ==
    /\ resp = NoResp
    /\ \E m \in JarModules, path \in SessionPaths :
        \E c \in Cookies(m) : Serve(m, path, c)

AuthSession == \E m \in JarModules : AuthKnown("10.0.0.1", m)

TickSession == Tick(SessionInstants)

ProtectDemo == \E p \in Passcodes : SetPasscode("demo", p)

UnprotectDemo == RemoveRecord("demo")

Next ==
    \/ ServeSession
    \/ AuthSession
    \/ Deliver
    \/ TickSession
    \/ ProtectDemo
    \/ UnprotectDemo
    \/ RotateSecret
    \/ DeleteSecret
    \/ CreateApp

Spec == Init /\ [][Next]_vars

----------------------------------------------------------------------------
(* SpecGate: the access gate.  Every request path of at most MaxPathLen
   segments against the module demo (open or protected, with a symbolic link
   ln inside it), the hidden directory .hid, the link alias, the parent ".."
   and a missing module. *)

GateModules == {"demo", ".hid", "alias", "..", "nomod"}

GateSegs == {"a.txt", "ln", "..", ".", ".encrypt"}

\* where the link ln of the module demo may point
GateTargets ==
    {<<"etc", "passwd">>, <<"srv", "demo-evil", "a.txt">>, <<"srv", "demo-evil">>,
     <<"srv", "demo", "a.txt">>, <<"srv", "demo">>}

ServeGate ==
    /\ resp = NoResp
    /\ \E m \in GateModules, path \in RequestPaths(GateSegs, MaxPathLen) :
        \E c \in {NoCookie, Forged(m, now), jar["demo"]} : Serve(m, path, c)

AuthGate == AuthKnown("10.0.0.1", "demo")

ProtectGate == SetPasscode("demo", "p1")

PlaceLink == \E target \in GateTargets : MakeLink(<<"srv", "demo", "ln">>, target)

RemoveLink == Unlink(<<"srv", "demo", "ln">>)

NextGate ==
    \/ ServeGate
    \/ AuthGate
    \/ Deliver
    \/ ProtectGate
    \/ UnprotectDemo
    \/ PlaceLink
    \/ RemoveLink

SpecGate == Init /\ [][NextGate]_vars

----------------------------------------------------------------------------
(* SpecAuth: passcode submission.  One client submits right, wrong and
   non-ASCII passcodes to demo and to a missing module while the credential
   record of demo is set, rewritten by hand and removed, within one window. *)

\* a passcode with a character outside ASCII, as the form submits it
NonAscii == "p%C3%A9"

WindowInstants == {k * (window \div 2) : k \in 0..MaxHalfWindows}

\* records written by hand: the legacy format, and a record whose salt is not hex
HandRecords == {Plain("p1"), Salted(NotHex, Pbkdf2("p1", NotHex))}

AuthAny ==
    /\ resp = NoResp
    /\ \E m \in {"demo", "nomod"}, p \in Passcodes \cup {NonAscii} :
           Auth("10.0.0.1", m, p)

ServeAuth ==
    /\ resp = NoResp
    /\ \E c \in {NoCookie, jar["demo"]} :
           Serve("demo", ReqPath(FALSE, <<"a.txt">>, FALSE), c)

TickWindow == Tick(WindowInstants)

WriteByHand == \E text \in HandRecords : WriteRecord("demo", text)

NextAuth ==
    \/ AuthAny
    \/ ServeAuth
    \/ Deliver
    \/ TickWindow
    \/ ProtectDemo
    \/ WriteByHand
    \/ UnprotectDemo

SpecAuth == Init /\ [][NextAuth]_vars

----------------------------------------------------------------------------
(* SpecLimiter: the rate limiter.  Three (client, module) pairs submit wrong
   passcodes to the protected modules docs and 2:docs; every call of
   is_limited is logged. *)

LimiterPairs ==
    {<<"10.0.0.1", "docs">>, <<"fe80::1", "2:docs">>, <<"fe80::1:2", "docs">>}

AuthLimiter ==
    /\ resp = NoResp
    /\ \E pair \in LimiterPairs : AuthLogged(pair[1], pair[2], "p1")

NextLimiter ==
    \/ AuthLimiter
    \/ Deliver
    \/ TickWindow

SpecLimiter == Init /\ [][NextLimiter]_vars

----------------------------------------------------------------------------
(* SpecPersist: the life of a session.  Two clients submit right and wrong
   passcodes to the protected module docs, whose credential record is
   overwritten with other passcodes, while the clock runs over the days, the
   secret is rotated and the server restarted; the first client requests a
   file of docs with the cookie of its jar. *)

PersistClients == {"10.0.0.1", "fe80::1"}

AuthPersist ==
    /\ resp = NoResp
    /\ \E c \in PersistClients, p \in Passcodes : Auth(c, "docs", p)

ServePersist ==
    /\ resp = NoResp
    /\ Serve("docs", ReqPath(FALSE, <<"a.txt">>, FALSE), jar["docs"])

\* the client of the jar takes its response; the response to another client
\* goes to that client
DeliverPersist ==
    /\ resp # NoResp
    /\ IF resp.op = "auth" /\ resp.client # "10.0.0.1"
       THEN resp' = NoResp
            /\ UNCHANGED <<fs, secretFile, secret, attempts, now, jar, calls, daemonVars, loop>>
       ELSE Deliver

ReprotectDocs == \E p \in Passcodes : SetPasscode("docs", p)

\* the start of each day, and the second after the first day is over
PersistInstants == {d * AUTH_COOKIE_MAX_AGE : d \in 0..MaxDays} \cup {AUTH_COOKIE_MAX_AGE + 1}

TickPersist == Tick(PersistInstants)

NextPersist ==
    \/ AuthPersist
    \/ ServePersist
    \/ DeliverPersist
    \/ TickPersist
    \/ ReprotectDocs
    \/ RotateSecret
    \/ CreateApp

SpecPersist == Init /\ [][NextPersist]_vars

----------------------------------------------------------------------------
(* SpecDaemon: the daemon manager.  The commands start, stop, status and
   restart are issued one after the other against a server that is running,
   has ended without cleanup, or whose process id now belongs to a process
   of another user. *)

NextDaemon ==
    \/ CliStatus
    \/ CliStop
    \/ CliStart
    \/ CliRestart
    \/ RestartStatus
    \/ RestartStop
    \/ RestartSleep
    \/ RestartUnlink
    \/ RestartStart
    \/ Fork1
    \/ Fork2
    \/ Redirect
    \/ WritePid
    \/ Run
    \/ RunFails
    \/ ProcExit
    \/ ForeignSpawn
    \/ ForeignExit

SpecDaemon == Init /\ [][NextDaemon]_vars

----------------------------------------------------------------------------
(* SpecLoop: concurrent passcode submissions.  One client sends up to
   MaxRequests submissions for the module docs; they are in flight together
   and the loop handles them in any order while the clock moves on. *)

\* the client guesses: p1 is not the passcode of docs
ArriveLoop == Arrive("10.0.0.1", "docs", "p1")

StepLoop ==
    \E i \in 1..MaxRequests :
        AuthBegin(i) \/ LimitCheck(i) \/ LimitRecord(i) \/ AuthEnd(i)

TickLoop == Tick(WindowInstants)

NextLoop ==
    \/ ArriveLoop
    \/ StepLoop
    \/ TickLoop

SpecLoop == Init /\ [][NextLoop]_vars

----------------------------------------------------------------------------
(* What the claims speak of *)

\* file lies strictly inside dir: dir is a proper prefix of its components
StrictlyInside(file, dir) ==
    /\ Len(file) > Len(dir)
    /\ SubSeq(file, 1, Len(dir)) = dir

\* the module of the request has a credential record
Protected(module) == Exists(fs, ModuleDir(module) \o <<".encrypt">>)

\* the cookie is a token that verifies under the server's secret, is not older
\* than 24 hours and was issued for the module
ValidFor(cookie, module) ==
    /\ cookie.kind = "token"
    /\ cookie.sig = secret
    /\ now - cookie.ts <= AUTH_COOKIE_MAX_AGE
    /\ cookie.payload = module

\* the module name or a segment of the request path begins with "."
DotLed(module, path) ==
    \/ Chars(module)[1] = "."
    \/ \E i \in 1..Len(path.segs) : Chars(path.segs[i])[1] = "."

\* ... a segment other than the current-directory segment "."
HiddenNamed(module, path) ==
    \/ Chars(module)[1] = "."
    \/ \E i \in 1..Len(path.segs) : path.segs[i] # "." /\ Chars(path.segs[i])[1] = "."

\* the joined and canonicalized path of a request
Canonical(module, path) == Resolve(fs, Joined(module, WithIndex(path)))

\* the passcode is the one the credential record was made from
Matches(passcode, text) ==
    IF text.colon
    THEN text.salt \in HexSalts /\ text.hash = Pbkdf2(passcode, text.salt)
    ELSE text.text = passcode

IsServe == resp.op = "serve"
IsAuth == resp.op = "auth"

----------------------------------------------------------------------------
(* Claims on the access gate, under SpecGate *)

\* C1: a file is served (200) only if it is the canonical path of a regular
\* file strictly inside the module directory; the module directory itself and
\* everything outside it is never served.
C1_ServedOnlyInsideModule ==
    IsServe /\ resp.status = 200 =>
        /\ StrictlyInside(resp.file, ModuleDir(resp.module))
        /\ resp.file = Canonical(resp.module, resp.path)
        /\ IsFile(fs, resp.file)

\* C1 witness: the module holds a link to a sibling whose name extends the
\* module's, and a file of the module is served through a request naming "ln".
C1_Witness ==
    /\ IsServe /\ resp.status = 200
    /\ IsLink(fs, <<"srv", "demo", "ln">>)
    /\ "ln" \in Range(resp.path.segs)

\* C3 as stated: every request to an existing module in which the module name
\* or any path segment begins with "." is answered 403.
C3_AnyDotSegmentForbidden ==
    IsServe /\ IsDir(fs, ModuleDir(resp.module)) /\ DotLed(resp.module, resp.path)
        => resp.status = 403

\* C3 amended: every request to an existing module in which the module name, or
\* a path segment other than ".", begins with "." is answered 403, whatever the
\* cookie.
C3_HiddenForbidden ==
    IsServe /\ IsDir(fs, ModuleDir(resp.module)) /\ HiddenNamed(resp.module, resp.path)
        => resp.status = 403

\* C3 witness: GET /demo/.encrypt with a valid session cookie for demo is 403.
C3_Witness ==
    /\ IsServe /\ resp.status = 403
    /\ resp.module = "demo" /\ resp.path = ReqPath(FALSE, <<".encrypt">>, FALSE)
    /\ Protected("demo") /\ ValidFor(resp.cookie, "demo")

----------------------------------------------------------------------------
(* Claims on sessions, under Spec *)

\* C2 as stated: a request to a protected module is answered 200 only if its
\* cookie is valid for the module, and 401 whenever the cookie is not valid.
C2_InvalidCookieAlwaysChallenged ==
    IsServe /\ Protected(resp.module) =>
        /\ resp.status = 200 => ValidFor(resp.cookie, resp.module)
        /\ ~ValidFor(resp.cookie, resp.module) => resp.status = 401

\* C2 amended: a request to a protected module is answered 200 only if its
\* cookie is valid for the module; when the cookie is not valid it is answered
\* 401, unless the module name or a path segment other than "." begins with
\* "." (the hidden-file check has then answered 403).
C2_ProtectedNeedsValidCookie ==
    IsServe /\ Protected(resp.module) =>
        /\ resp.status = 200 => ValidFor(resp.cookie, resp.module)
        /\ ~ValidFor(resp.cookie, resp.module) =>
               resp.status = IF HiddenNamed(resp.module, resp.path) THEN 403 ELSE 401

\* C2 witness: a token the server issued for docs, still fresh, is sent as the
\* cookie of demo and the request is challenged.
C2_Witness ==
    /\ IsServe /\ resp.status = 401
    /\ resp.module = "demo" /\ Protected("demo")
    /\ ValidFor(resp.cookie, "docs")

\* the cookie of the request is a token the server's secret signed for the
\* module of the request
OwnToken == resp.cookie.kind = "token" /\ resp.cookie.payload = resp.module

\* C9 as stated: a request to a protected module that carries a token issued
\* for it passes the credential check while the token is at most 24 hours old,
\* and is answered 401 once it is older.
C9_TokenLivesExactlyADay ==
    /\ IsAuth /\ resp.setCookie # NoCookie =>
           loads(resp.setCookie, secret, now, AUTH_COOKIE_MAX_AGE) = resp.module
    /\ IsServe /\ Protected(resp.module) /\ OwnToken /\ resp.cookie.sig # 0 =>
           IF now - resp.cookie.ts <= AUTH_COOKIE_MAX_AGE
           THEN resp.status # 401
           ELSE resp.status = 401

\* C9 amended: a token validates to its module when it is issued; a request to
\* a protected module that carries a token signed for it by the secret the
\* process holds passes the credential check while the token is at most 24
\* hours old; once it is older the request is answered 401, or 403 if the
\* hidden-file check stops it first.
C9_TokenLivesADayUnderItsSecret ==
    /\ IsAuth /\ resp.setCookie # NoCookie =>
           loads(resp.setCookie, secret, now, AUTH_COOKIE_MAX_AGE) = resp.module
    /\ IsServe /\ Protected(resp.module) /\ OwnToken /\ resp.cookie.sig = secret =>
           IF now - resp.cookie.ts <= AUTH_COOKIE_MAX_AGE
           THEN resp.status # 401
           ELSE resp.status = IF HiddenNamed(resp.module, resp.path) THEN 403 ELSE 401

\* C9 witness: a token exactly 24 hours old is accepted and the file served.
C9_Witness ==
    /\ IsServe /\ resp.status = 200 /\ Protected(resp.module)
    /\ OwnToken /\ now - resp.cookie.ts = AUTH_COOKIE_MAX_AGE

\* C10 as stated: no request is served on a token unless the secret that signed
\* it is still the one persisted in ~/.demo-server/.secret.
C10_RotationRejectsAtOnce ==
    IsServe /\ resp.checked /\ resp.status # 401 =>
        secretFile # <<>> /\ resp.cookie.sig = secretFile[1]

\* C10 amended: a token signed with a secret other than the one the serving
\* process holds never passes the credential check; and a secret written by a
\* rotation, which the next start of the server will read, has signed none of
\* the outstanding tokens: every token issued before a rotation or deletion is
\* rejected by every request served by a process started after it.
C10_OtherSecretNeverValidates ==
    /\ IsServe /\ resp.checked /\ resp.cookie.kind = "token" /\ resp.cookie.sig # secret
           => resp.status = 401
    /\ IsServe /\ resp.checked /\ resp.status # 401 => resp.cookie.sig = secret
    /\ \A m \in JarModules :
           jar[m].kind = "token" /\ secretFile # <<>> /\ secretFile[1] # secret
               => jar[m].sig # secretFile[1]

\* C10 witness: the secret was rotated and the server started again; a token
\* of the jar that the old secret signed, still fresh, is challenged.
C10_Witness ==
    /\ IsServe /\ resp.status = 401 /\ resp.checked
    /\ OwnToken /\ resp.cookie = jar[resp.module]
    /\ resp.cookie.sig # secret /\ resp.cookie.sig # 0
    /\ secretFile = <<secret>>
    /\ now - resp.cookie.ts <= AUTH_COOKIE_MAX_AGE

----------------------------------------------------------------------------
(* Claims on passcode submission, under SpecAuth *)

\* C5: no request but a passcode submission sets a cookie; a submission sets
\* one only when the module directory and its credential record exist, the
\* limiter was asked and did not report limited, and the passcode is the one
\* of the record; the token names the module of the URL; 404, 429 and 403 set
\* no cookie.
C5_CookieOnlyOnVerifiedPasscode ==
    /\ IsServe => resp.setCookie = NoCookie
    /\ IsAuth /\ resp.setCookie # NoCookie =>
        /\ resp.status = 303
        /\ IsDir(fs, ModuleDir(resp.module)) /\ Protected(resp.module)
        /\ "is_limited" \in Range(resp.trace) /\ ~resp.limited
        /\ Matches(resp.passcode, ReadText(fs, ModuleDir(resp.module) \o <<".encrypt">>))
        /\ resp.setCookie = dumps(resp.module, secret, now)
    /\ IsAuth /\ resp.status \in {404, 429, 403} => resp.setCookie = NoCookie

\* C5 witness: a cookie is issued on a right passcode.
C5_Witness ==
    /\ IsAuth /\ resp.status = 303
    /\ resp.setCookie.kind = "token" /\ resp.setCookie.payload = "demo"

\* C6: when the limiter reports limited, the submission is answered 429 and
\* sets no cookie, and the handler has neither read the credential record nor
\* verified the passcode.
C6_LimitedBeforePasscode ==
    IsAuth /\ resp.limited =>
        /\ resp.status = 429
        /\ resp.setCookie = NoCookie
        /\ resp.trace = <<"is_limited">>

\* C6 witness: the right passcode is answered 429 while the key is limited.
C6_Witness ==
    /\ IsAuth /\ resp.status = 429 /\ resp.limited
    /\ Matches(resp.passcode, ReadText(fs, ModuleDir(resp.module) \o <<".encrypt">>))

----------------------------------------------------------------------------
(* Claims on the rate limiter, under SpecLimiter *)

\* the calls is_limited(key) of the log, in order: <<client, module, time, result>>
CallsOf(key) == SelectSeq(calls, LAMBDA e : Key(e[1], e[2]) = key)

LimiterKeys == {Key(pair[1], pair[2]) : pair \in LimiterPairs}

\* C7: of the first six calls is_limited(k) made within one window, the first
\* five return false and the sixth true; a call made when the window has
\* elapsed since every earlier call of k returns false.
C7_FiveThenLimitedThenReset ==
    \A key \in LimiterKeys :
        LET L == CallsOf(key)
        IN  /\ \A i \in 1..Len(L) :
                   i <= max_attempts + 1 /\ L[i][3] - L[1][3] < window
                       => L[i][4] = (i = max_attempts + 1)
            /\ \A i \in 1..Len(L) :
                   (\A j \in 1..(i - 1) : L[i][3] - L[j][3] >= window)
                       => L[i][4] = FALSE

\* C7 witness: six calls of one key within a window, not all at one instant,
\* the sixth reported limited.
C7_Witness ==
    \E key \in LimiterKeys :
        LET L == CallsOf(key)
        IN  /\ Len(L) = max_attempts + 1
            /\ L[max_attempts + 1][3] - L[1][3] < window
            /\ L[max_attempts + 1][3] > L[1][3]
            /\ L[max_attempts + 1][4] = TRUE

\* the reset of C7 happens: five calls let through, and a sixth let through
\* because the window has elapsed since each of them
C7_ResetReached ==
    \E key \in LimiterKeys :
        LET L == CallsOf(key)
        IN  /\ Len(L) = max_attempts + 1
            /\ L[max_attempts + 1][3] - L[max_attempts][3] >= window
            /\ L[max_attempts + 1][4] = FALSE

\* the earlier calls by the same client for the same module that were let
\* through within the window before call i
OwnAttempts(i) ==
    {j \in 1..(i - 1) :
        /\ calls[j][1] = calls[i][1] /\ calls[j][2] = calls[i][2]
        /\ calls[j][4] = FALSE
        /\ calls[i][3] - calls[j][3] < window}

\* C8: a (client, module) pair is reported limited only on account of its own
\* attempts: max_attempts of them were let through within the window.
C8_LimitedOnlyByOwnAttempts ==
    \A i \in 1..Len(calls) :
        calls[i][4] = TRUE => Cardinality(OwnAttempts(i)) >= max_attempts

----------------------------------------------------------------------------
(* Claims on the life of a session, under SpecPersist *)

\* the client holds a cookie for the module that passes the credential check
Authenticated(m) == ValidFor(jar[m], m)

\* C11: a client that holds a valid token for a protected module stays
\* authenticated across every step after which the token is at most 24 hours
\* old and the process holds the same secret (passcode submissions that fail
\* or are rate limited, and the overwriting of the credential record, among
\* them), and a request for the module that carries the cookie is then not
\* answered 401.
C11_SessionLastsUntilExpiryOrNewSecret ==
    [][\A m \in JarModules :
          (/\ Authenticated(m)
           /\ secret' = secret
           /\ now' - jar[m].ts <= AUTH_COOKIE_MAX_AGE)
          => /\ Authenticated(m)'
             /\ (resp'.op = "serve" /\ resp'.module = m /\ resp'.cookie = jar[m])
                    => resp'.status # 401]_vars

\* C11 witness: the token of the jar is a day old; since it was issued the
\* client has been rate limited and another client has failed, the record
\* holds another passcode than at the start, and the file is served.
C11_Witness ==
    /\ IsServe /\ resp.status = 200 /\ resp.module = "docs"
    /\ resp.cookie = jar["docs"]
    /\ now - resp.cookie.ts = AUTH_COOKIE_MAX_AGE
    /\ Matches("p1", ReadText(fs, ModuleDir("docs") \o <<".encrypt">>))
    /\ Len(History(attempts, Key("10.0.0.1", "docs"))) = max_attempts
    /\ History(attempts, Key("10.0.0.1", "docs"))[max_attempts] > resp.cookie.ts
    /\ Len(History(attempts, Key("fe80::1", "docs"))) > 0

----------------------------------------------------------------------------
(* Claims on error handling, under SpecAuth *)

\* C12: every passcode submission ends in one of 303, 403, 404 and 429,
\* whatever the passcode and the content of the credential record, and every
\* request to a protected module whose cookie is not valid ends in 401: no
\* handler ends in an uncaught exception (a 500).
C12_NoUncaughtFault ==
    /\ IsAuth => resp.status \in {303, 403, 404, 429}
    /\ IsServe /\ Protected(resp.module) /\ ~ValidFor(resp.cookie, resp.module)
           /\ ~HiddenNamed(resp.module, resp.path)
           => resp.status = 401

----------------------------------------------------------------------------
(* Claims on the daemon manager, under SpecDaemon *)

\* C13: status finds (None, false) when there is no PID file, (pid, false)
\* when the probe of the pid in the file reports no such process, and
\* (pid, true) when the probe succeeds or is denied; the status command removes
\* the PID file in the second case and leaves it as it was in the others.
C13_StatusClassifies ==
    out.cmd = "status" =>
        /\ out.before = <<>> =>
               out.pid = <<>> /\ ~out.running /\ out.after = <<>>
        /\ out.before # <<>> /\ out.probe = "ProcessLookupError" =>
               out.pid = out.before /\ ~out.running /\ out.after = <<>>
        /\ out.before # <<>> /\ out.probe \in {"ok", "PermissionError"} =>
               out.pid = out.before /\ out.running /\ out.after = out.before

\* C13 witness: the pid of the file belongs to a process of another user; the
\* status command reports it running and keeps the file.
C13_Witness ==
    /\ out.cmd = "status" /\ out.probe = "PermissionError"
    /\ out.running /\ out.after = out.before /\ pidFile = out.before

\* the server the PID file named has ended and status removed the stale file
C13_StaleReached ==
    /\ out.cmd = "status" /\ out.probe = "ProcessLookupError"
    /\ out.before # <<>> /\ pidFile = <<>>

\* C14: after stop the PID file does not exist, whether the signal was
\* delivered, the process was not found or the permission was denied; with no
\* PID file, stop signals no process, reports that none runs and raises
\* nothing.
C14_StopRemovesPidFile ==
    /\ out.cmd = "stop" =>
        /\ out.after = <<>>
        /\ out.before = <<>> =>
               /\ out.signalled = <<>>
               /\ out.message = "No PID file found"
               /\ out.error = "none"
    /\ job.stop.cmd = "stop" => job.stop.after = <<>>

\* C14 witness: stop was denied the permission to signal the process the PID
\* file named, and the file is gone.
C14_Witness ==
    /\ out.cmd = "stop" /\ out.probe = "PermissionError"
    /\ out.before # <<>> /\ pidFile = <<>>

\* the place of the event in the trace of a command
Pos(trace, e) == CHOOSE i \in 1..Len(trace) : trace[i] = e

\* the last start command has written the PID file
Daemonized == "write_pid" \in Range(job.trace)

\* daemonize has just returned, or the server it started is running
DaemonizedRight ==
    /\ job.pc = "run" =>
        /\ pidFile = <<job.pid>>
        /\ job.self = job.pid /\ job.pid \in live
        /\ job.orig \notin live /\ job.mid \notin live
    /\ Daemonized =>
        /\ job.redirected
        /\ Pos(job.trace, "dup2") < Pos(job.trace, "write_pid")

\* C15 as stated: when daemonize returns, the PID file holds the pid of the
\* child of the second fork, the two processes before it have exited and the
\* streams were redirected before the pid was written; and from then on, as
\* long as that process is alive, a status query reports (that pid, true).
C15_StatusWhileAlive ==
    /\ DaemonizedRight
    /\ Idle /\ Daemonized /\ job.pid \in live =>
        /\ status(pidFile, live, foreign).pid = <<job.pid>>
        /\ status(pidFile, live, foreign).running

\* C15 amended: ... and from then on, as long as that process is alive and the
\* PID file still holds its pid (no later stop, status, restart or start has
\* removed or rewritten the file), a status query reports (that pid, true) and
\* leaves the file in place.
C15_StatusWhilePidFileStands ==
    /\ DaemonizedRight
    /\ Idle /\ Daemonized /\ job.pid \in live /\ pidFile = <<job.pid>> =>
        /\ status(pidFile, live, foreign).pid = <<job.pid>>
        /\ status(pidFile, live, foreign).running
        /\ status(pidFile, live, foreign).after = pidFile

\* C15 witness: a second server was started, and the status command run after
\* it reported its pid as running.
C15_Witness ==
    /\ job.cmd = "start" /\ job.pc = "done" /\ job.pid > FirstStart.pid
    /\ job.pid \in serving
    /\ out.cmd = "status" /\ out.pid = <<job.pid>> /\ out.running
    /\ pidFile = <<job.pid>>

\* the first n steps of the command
Began(n) == SubSeq(job.trace, 1, n)

\* C16: restart enters start exactly once, whatever state it finds, and only
\* when the old PID file is gone: after stop_daemon and the grace period if
\* the daemon runs, after deleting the file if it is stale, at once if there
\* is none; the PID file written then names the new daemon, not the old one.
C16_RestartStartsOnce ==
    job.cmd = "restart" =>
        /\ job.pc \in {"done", "failed"} => job.starts = 1
        /\ job.starts > 0 =>
            /\ job.fileAtStart = <<>>
            /\ job.st.running =>
                   /\ Began(4) = <<"daemon_status", "stop_daemon", "sleep", "start">>
                   /\ job.stop.after = <<>>
                   /\ job.stop.probe = "ok" => job.stop.signalled = job.st.pid
            /\ ~job.st.running /\ job.st.pid # <<>> =>
                   Began(3) = <<"daemon_status", "unlink", "start">>
            /\ job.st.pid = <<>> => Began(2) = <<"daemon_status", "start">>
        /\ job.pc = "run" => pidFile = <<job.pid>> /\ pidFile # job.st.pid
        /\ job.pc = "done" /\ pidFile # <<>> => pidFile = <<job.pid>>

----------------------------------------------------------------------------
(* Claims on concurrent submissions, under SpecLoop *)

\* the submissions that got past the limiter
Passed == {i \in 1..Len(loop.handlers) : loop.handlers[i].passed}

\* those of them for the key of i whose attempt falls in the window that ends
\* with the attempt of i
PassedInWindow(i) ==
    {j \in Passed :
        /\ Key(loop.handlers[j].client, loop.handlers[j].module)
             = Key(loop.handlers[i].client, loop.handlers[i].module)
        /\ loop.handlers[j].t <= loop.handlers[i].t
        /\ loop.handlers[i].t - loop.handlers[j].t < window}

\* the submissions that are inside is_limited: the list is pruned and the
\* attempt neither refused nor recorded yet
InLimiter == {i \in 1..Len(loop.handlers) : loop.handlers[i].pc \in {"pruned", "recording"}}

\* C17: however the submissions of one client for one module are interleaved,
\* at most max_attempts of them within one window get past the limiter to the
\* passcode check; the prune-check-record sequence is atomic: no two
\* submissions for one key are inside it at once, and the one that records
\* finds the slot it saw free still free.
C17_AtMostMaxPerWindow ==
    /\ \A i \in Passed : Cardinality(PassedInWindow(i)) <= max_attempts
    /\ \A i, j \in InLimiter :
           Key(loop.handlers[i].client, loop.handlers[i].module)
             = Key(loop.handlers[j].client, loop.handlers[j].module) => i = j
    /\ \A i \in InLimiter :
           loop.handlers[i].pc = "recording" =>
               Len(History(attempts, Key(loop.handlers[i].client,
                                         loop.handlers[i].module))) < max_attempts

\* C17 witness: six submissions were in flight together at one instant; five
\* got past the limiter and the sixth was answered 429.
C17_Witness ==
    /\ Len(loop.handlers) = max_attempts + 1
    /\ Cardinality(Passed) = max_attempts
    /\ \A i \in 1..Len(loop.handlers) :
           /\ loop.handlers[i].pc = "done"
           /\ loop.handlers[i].seen = max_attempts + 1
           /\ loop.handlers[i].t = loop.handlers[1].t
    /\ \E i \in 1..Len(loop.handlers) : loop.handlers[i].status = 429

----------------------------------------------------------------------------
(* Claims on the frame of is_limited, under SpecLimiter *)

\* the entries of a history that are less than a window old at time t
Unexpired(h, t) == SelectSeq(h, LAMBDA x : t - x < window)

\* the call of is_limited the step has logged
LastCall == calls'[Len(calls')]

\* C18: a call is_limited(k) that returns true leaves the history of k as it
\* was but for the expired entries, and a call that returns false appends the
\* one timestamp now to it; so refused calls do not extend a lockout: k is not
\* limited once its oldest recorded attempt is a full window old.
C18_RefusedCallsRecordNothing ==
    /\ [][calls' # calls =>
            LET key == Key(LastCall[1], LastCall[2])
                kept == Unexpired(History(attempts, key), now)
            IN  attempts'[key] = IF LastCall[4] THEN kept ELSE Append(kept, now)]_vars
    /\ [](\A key \in LimiterKeys :
            /\ History(attempts, key) # <<>>
            /\ now - History(attempts, key)[1] >= window
            => ~is_limited(attempts, key, now))

\* C18 witness: a key was refused after its five attempts, and a window after
\* the oldest of them it is not limited.
C18_Witness ==
    \E key \in LimiterKeys :
        /\ Len(History(attempts, key)) = max_attempts
        /\ Len(CallsOf(key)) > max_attempts
        /\ CallsOf(key)[Len(CallsOf(key))][4] = TRUE
        /\ now - History(attempts, key)[1] >= window
        /\ ~is_limited(attempts, key, now)

----------------------------------------------------------------------------
(* Claims on what a response reveals, under SpecGate *)

\* the filesystems that differ from f only in the requested file p: the file
\* taken away or replaced by a directory, or a file put where there was none
Variants(f, p) ==
    IF p \notin DOMAIN f THEN {WithNode(f, p, Data)}
    ELSE IF f[p].kind = "file" THEN {WithoutNode(f, p), WithNode(f, p, Dir)}
    ELSE {}

\* the module is a directory with a credential record in filesystem f
ProtectedIn(f, module) ==
    IsDir(f, ModuleDir(module)) /\ Exists(f, ModuleDir(module) \o <<".encrypt">>)

\* C19: a request to a protected module without a valid cookie is answered
\* 401, or 403 (and then the path is hidden or leaves the module), never 404,
\* and it is answered the same in every filesystem that differs only in
\* whether the requested file exists or is a regular file.
C19_AnswerHidesFileExistence ==
    IsServe /\ ProtectedIn(fs, resp.module) /\ ~ValidFor(resp.cookie, resp.module) =>
        /\ resp.status \in {401, 403}
        /\ resp.status = 403 =>
               \/ HiddenNamed(resp.module, resp.path)
               \/ ~StrictlyInside(Canonical(resp.module, resp.path),
                                  ModuleDir(resp.module))
        /\ \A g \in Variants(fs, Canonical(resp.module, resp.path)) :
               ProtectedIn(g, resp.module) =>
                   serve(g, secret, now, resp.module, resp.path, resp.cookie).status
                     = resp.status

\* C19 witness: a file of the protected module is requested with a cookie that
\* does not verify; the file exists and the request is challenged, as it is
\* when the file is taken away.
C19_Witness ==
    /\ IsServe /\ resp.status = 401 /\ ProtectedIn(fs, resp.module)
    /\ resp.cookie = Forged(resp.module, now)
    /\ IsFile(fs, Canonical(resp.module, resp.path))
    /\ StrictlyInside(Canonical(resp.module, resp.path), ModuleDir(resp.module))
    /\ serve(WithoutNode(fs, Canonical(resp.module, resp.path)), secret, now,
             resp.module, resp.path, resp.cookie).status = 401

----------------------------------------------------------------------------
(* Claims on the invariants of the limiter, under SpecLimiter *)

\* the timestamps of the list do not decrease
NonDecreasing(h) == \A i \in 1..(Len(h) - 1) : h[i] <= h[i + 1]

\* C20: with a clock that does not go back, after any calls of is_limited on
\* any keys the list stored for each key holds at most max_attempts
\* timestamps, none smaller than the one before it; and a call is_limited(k)
\* changes the list of k only.
C20_HistoriesBoundedSortedDisjoint ==
    /\ [](\A k \in DOMAIN attempts :
            Len(attempts[k]) <= max_attempts /\ NonDecreasing(attempts[k]))
    /\ [][calls' # calls =>
            /\ DOMAIN attempts' = DOMAIN attempts \cup {Key(LastCall[1], LastCall[2])}
            /\ \A k \in DOMAIN attempts \ {Key(LastCall[1], LastCall[2])} :
                   attempts'[k] = attempts[k]]_vars

\* C20 witness: one key holds max_attempts timestamps taken at different
\* instants while another key holds an attempt that is a window old, which a
\* call for the first key has left in place.
C20_Witness ==
    \E k1, k2 \in DOMAIN attempts :
        /\ k1 # k2
        /\ Len(attempts[k1]) = max_attempts
        /\ attempts[k1][1] < attempts[k1][max_attempts]
        /\ attempts[k2] # <<>>
        /\ attempts[k1][max_attempts] - attempts[k2][1] >= window

====
